---- MODULE Spec2Model ----
(***************************************************************************)
(* Model of api/router/pubsub/WorkflowStatusUpdateHandler.go: the two      *)
(* durable queue subscriptions (build = WORKFLOW_STATUS_UPDATE, deploy =   *)
(* CD_WORKFLOW_STATUS_UPDATE), their callbacks, and the constructor that   *)
(* registers them.  The streaming broker is modelled by what the           *)
(* subscription options of the QueueSubscribe calls ask of it: durable     *)
(* position, manual acknowledgment, ack-wait redelivery, MaxInflight(1).   *)
(***************************************************************************)
EXTENDS Integers, Sequences, FiniteSets, TLC

VARIABLES
    ctor,        \* position of NewWorkflowStatusUpdateHandlerImpl
    ctorRet,     \* tuple of the values the constructor returned to its caller
    subRet,      \* per channel: tuple of the values Subscribe / SubscribeCD returned
    subscribed,  \* per channel: the QueueSubscribe registration is live
    durable,     \* per channel: the broker's durable record exists
    log,         \* per channel: the messages published on it, in order
    lastSent,    \* per channel: highest sequence number sent to the durable
    acksPending, \* per channel: sequence numbers sent and not yet acknowledged
    acked,       \* per channel: sequence numbers the broker saw acknowledged
    dlv,         \* per channel: the deliveries handed to the client, in order
    cdStored     \* state kept by the deploy handler: the run status it stored last

vars == <<ctor, ctorRet, subRet, subscribed, durable, log, lastSent,
          acksPending, acked, dlv, cdStored>>

----------------------------------------------------------------------------
(* Bounds of the model *)

MaxMsgs == 2
MaxDeliveries == 2

----------------------------------------------------------------------------
(* Program constants *)

workflowStatusUpdate == "WORKFLOW_STATUS_UPDATE"
cdWorkflowStatusUpdate == "CD_WORKFLOW_STATUS_UPDATE"
Channels == {workflowStatusUpdate, cdWorkflowStatusUpdate}

\* variant: two unacknowledged messages are allowed per subscription
MaxInflightTwo == 1 + 1

\* stan.MaxInflight(1) of both QueueSubscribe calls
MaxInflight == 1

NodeSucceeded == "Succeeded"
NodeFailed == "Failed"
NodeError == "Error"
NodeRunning == "Running"
Statuses == {NodeSucceeded, NodeFailed, NodeError, NodeRunning}

CD_WORKFLOW_TYPE_PRE == "PRE"
CD_WORKFLOW_TYPE_POST == "POST"
CD_WORKFLOW_TYPE_DEPLOY == "DEPLOY"

\* util.EventType(0), util.Success, util.Fail; util.CD
EventTypeUnset == "EventType(0)"
Success == "Success"
Fail == "Fail"
CD == "CD"

NilHandler == "nil"
Impl == "workflowStatusUpdateHandlerImpl"
RegistrationErr == "err"

----------------------------------------------------------------------------
(* Message payloads and json.Unmarshal into v1alpha1.WorkflowStatus *)

\* a payload: whether it is JSON the status type accepts, the phase it
\* carries, and whether it carries fields the status type does not have
Garbage == [valid |-> FALSE, phase |-> NodeSucceeded, junk |-> FALSE]
OkSucceeded == [valid |-> TRUE, phase |-> NodeSucceeded, junk |-> TRUE]
Payloads == {Garbage, OkSucceeded}

EmptyWfStatus == [Phase |-> ""]

\* json.Unmarshal: malformed input is an error and leaves the target at its
\* zero value; unknown fields are dropped.
Unmarshal(data) ==
    IF ~data.valid
    THEN [err |-> TRUE, wfStatus |-> EmptyWfStatus]
    ELSE [err |-> FALSE, wfStatus |-> [Phase |-> data.phase]]

WellFormed(data) == ~Unmarshal(data).err

----------------------------------------------------------------------------
(* Run records held by the CdWorkflowRepository (read only here) *)

RunnerIds == 1..3

NoRunner == [Id |-> 0, WorkflowType |-> "", PipelineId |-> 0, AppId |-> 0, EnvironmentId |-> 0]

Runners ==
    { [Id |-> 1, WorkflowType |-> CD_WORKFLOW_TYPE_PRE, PipelineId |-> 7, AppId |-> 3, EnvironmentId |-> 9],
      [Id |-> 2, WorkflowType |-> CD_WORKFLOW_TYPE_POST, PipelineId |-> 8, AppId |-> 4, EnvironmentId |-> 10],
      [Id |-> 3, WorkflowType |-> CD_WORKFLOW_TYPE_DEPLOY, PipelineId |-> 7, AppId |-> 5, EnvironmentId |-> 11] }

\* FindWorkflowRunnerById: the record, or an error when there is none
FindWorkflowRunnerById(id) ==
    IF \E r \in Runners : r.Id = id
    THEN [err |-> FALSE, wfr |-> CHOOSE r \in Runners : r.Id = id]
    ELSE [err |-> TRUE, wfr |-> NoRunner]

----------------------------------------------------------------------------
(* Deliveries: one record per message handed to the client library, holding *)
(* the callback's position, its local variables and the calls it has made.  *)

NoErr == "nil"

NewDelivery(ch, seq, redelivered) ==
    [ch |-> ch, seq |-> seq, redelivered |-> redelivered, pc |-> "queued",
     acks |-> 0, nUpd |-> 0, nFind |-> 0, nWrite |-> 0,
     wfStatus |-> EmptyWfStatus, updCalls |-> <<>>, findCalls |-> <<>>,
     events |-> <<>>, wfrId |-> 0, wfrStatus |-> "", wfr |-> NoRunner,
     ret |-> <<>>, outcome |-> "", archived |-> FALSE]

RunningPcs == {"inUpdate", "inLookup", "inWrite"}

\* a callback that is over keeps no local variable: what stays of its
\* delivery is how it ended (returned or lost), whether it acknowledged,
\* and how many handler updates and event writes it made
Archive(d) ==
    [d EXCEPT !.wfStatus = EmptyWfStatus, !.updCalls = <<>>, !.findCalls = <<>>,
              !.events = <<>>, !.wfrId = 0, !.wfrStatus = "", !.wfr = NoRunner,
              !.nFind = 0, !.outcome = "", !.archived = TRUE]

\* defer msg.Ack(): runs once, when the callback returns
DeferredAck(d) == [d EXCEPT !.acks = @ + 1]

\* the callback is func(msg *stan.Msg): it returns no value
Return(d, outcome) ==
    DeferredAck([d EXCEPT !.pc = "returned", !.outcome = outcome, !.ret = <<>>])

----------------------------------------------------------------------------
(* The build callback (Subscribe) *)

\* variant: the handler is given the zero status, not the decoded one
CiCallUpdateZero(d, wfStatus) ==
    [d EXCEPT !.wfStatus = wfStatus, !.updCalls = Append(@, EmptyWfStatus),
              !.nUpd = @ + 1, !.pc = "inUpdate"]

\* ciHandler.UpdateWorkflow(wfStatus) is called
CiCallUpdate(d, wfStatus) ==
    [d EXCEPT !.wfStatus = wfStatus, !.updCalls = Append(@, wfStatus),
              !.nUpd = @ + 1, !.pc = "inUpdate"]

\* variant: the decode failure is logged but processing goes on
CiReceiveNoReturn(d, data) == CiCallUpdate(d, Unmarshal(data).wfStatus)

CiReceive(d, data) ==
    LET u == Unmarshal(data) IN
    IF u.err THEN Return(d, "DecodeError") ELSE CiCallUpdate(d, u.wfStatus)

\* variant: the message is acknowledged only when the update succeeded
CiUpdateDoneAckOnSuccess(d, err) ==
    IF err # NoErr
    THEN [d EXCEPT !.pc = "returned", !.outcome = "HandlerError"]
    ELSE Return(d, "Updated")

\* variant: a failed update is tried again
CiUpdateDoneRetry(d, err) ==
    IF err # NoErr THEN CiCallUpdate(d, d.wfStatus) ELSE Return(d, "Updated")

\* after ciHandler.UpdateWorkflow returned err: logged only
CiUpdateDone(d, err) ==
    IF err # NoErr THEN Return(d, "HandlerError") ELSE Return(d, "Updated")

----------------------------------------------------------------------------
(* The deploy callback (SubscribeCD) *)

\* cdHandler.UpdateWorkflow(wfStatus) is called
CdCallUpdate(d, wfStatus) ==
    [d EXCEPT !.wfStatus = wfStatus, !.updCalls = Append(@, wfStatus),
              !.nUpd = @ + 1, !.pc = "inUpdate"]

\* variant: a message the broker marks as sent again is skipped
CdReceiveDedup(d, data) ==
    LET u == Unmarshal(data) IN
    IF d.redelivered THEN Return(d, "Duplicate")
    ELSE IF u.err THEN Return(d, "DecodeError") ELSE CdCallUpdate(d, u.wfStatus)

\* variant: the decode failure is logged but the update is still called
CdReceiveNoReturn(d, data) == CdCallUpdate(d, Unmarshal(data).wfStatus)

CdReceive(d, data) ==
    LET u == Unmarshal(data) IN
    IF u.err THEN Return(d, "DecodeError") ELSE CdCallUpdate(d, u.wfStatus)

\* cdWorkflowRepository.FindWorkflowRunnerById(wfrId) is called
CdCallFind(d, wfrId, wfrStatus) ==
    [d EXCEPT !.wfrId = wfrId, !.wfrStatus = wfrStatus,
              !.findCalls = Append(@, wfrId), !.nFind = @ + 1,
              !.pc = "inLookup"]

\* variant: a failed update is left unacknowledged, for the broker to resend
CdUpdateDoneNoAckOnError(d, res) ==
    IF res.err # NoErr
    THEN [d EXCEPT !.pc = "returned", !.outcome = "HandlerError"]
    ELSE CdCallFind(d, res.wfrId, res.wfrStatus)

\* after cdHandler.UpdateWorkflow returned (wfrId, wfrStatus, err)
CdUpdateDone(d, res) ==
    IF res.err # NoErr
    THEN Return(d, "HandlerError")
    ELSE CdCallFind(d, res.wfrId, res.wfrStatus)

\* variant: every status the update returns is taken for an outcome
TerminalAny(wfrStatus) == wfrStatus # ""

\* the status is a final one: Succeeded, Failed or Error
Terminal(wfrStatus) ==
    wfrStatus = NodeSucceeded \/ wfrStatus = NodeFailed \/ wfrStatus = NodeError

\* variant: Error is not mapped and keeps the unset event type
EventTypeOfNoError(wfrStatus) ==
    IF wfrStatus = NodeSucceeded THEN Success
    ELSE IF wfrStatus = NodeFailed THEN Fail
    ELSE EventTypeUnset

EventTypeOf(wfrStatus) ==
    IF wfrStatus = NodeSucceeded THEN Success
    ELSE IF wfrStatus = NodeFailed \/ wfrStatus = NodeError THEN Fail
    ELSE EventTypeUnset

\* the event handed to WriteEvent, as the arguments of eventFactory.Build
\* and eventFactory.BuildExtraCDData that made it
BuildEvent(eventType, wfr, stage) ==
    [eventType |-> eventType, pipelineId |-> wfr.PipelineId, appId |-> wfr.AppId,
     envId |-> wfr.EnvironmentId, pipelineType |-> CD,
     wfrId |-> wfr.Id, extra |-> 0, stage |-> stage]

\* eventClient.WriteEvent(event) is called
CdCallWrite(d, event) ==
    [d EXCEPT !.events = Append(@, event), !.nWrite = @ + 1, !.pc = "inWrite"]

\* variant: every workflow type notifies
StageOfAnyType(wfr) == wfr.WorkflowType

\* the stage gate: which stage, if any, the record's type notifies
StageOf(wfr) ==
    IF wfr.WorkflowType = CD_WORKFLOW_TYPE_PRE THEN CD_WORKFLOW_TYPE_PRE
    ELSE IF wfr.WorkflowType = CD_WORKFLOW_TYPE_POST THEN CD_WORKFLOW_TYPE_POST
    ELSE ""

\* variant: a failed lookup is reported as a Fail notification
CdFindDoneNotifyOnErr(d, res) ==
    IF res.err
    THEN CdCallWrite(d, BuildEvent(Fail, res.wfr, CD_WORKFLOW_TYPE_PRE))
    ELSE LET d1 == [d EXCEPT !.wfr = res.wfr] IN
         IF Terminal(d.wfrStatus)
         THEN IF StageOf(res.wfr) # ""
              THEN CdCallWrite(d1, BuildEvent(EventTypeOf(d.wfrStatus), res.wfr,
                                              StageOf(res.wfr)))
              ELSE Return(d1, "GatedOut")
         ELSE Return(d1, "Dropped")

\* after cdWorkflowRepository.FindWorkflowRunnerById returned (wfr, err)
CdFindDone(d, res) ==
    IF res.err
    THEN Return(d, "LookupError")
    ELSE LET d1 == [d EXCEPT !.wfr = res.wfr] IN
         IF Terminal(d.wfrStatus)
         THEN IF StageOf(res.wfr) # ""
              THEN CdCallWrite(d1, BuildEvent(EventTypeOf(d.wfrStatus), res.wfr,
                                              StageOf(res.wfr)))
              ELSE Return(d1, "GatedOut")
         ELSE Return(d1, "Dropped")

\* variant: a failed write is tried again
CdWriteDoneRetry(d, evtErr) ==
    IF evtErr # NoErr THEN CdCallWrite(d, d.events[1]) ELSE Return(d, "Dispatched")

\* variant: after a failed write the record is looked up again
CdWriteDoneRedo(d, evtErr) ==
    IF evtErr # NoErr THEN [d EXCEPT !.pc = "inLookup"] ELSE Return(d, "Dispatched")

\* after eventClient.WriteEvent returned (_, evtErr): logged only
CdWriteDone(d, evtErr) ==
    IF evtErr # NoErr THEN Return(d, "DispatchError") ELSE Return(d, "Dispatched")

----------------------------------------------------------------------------
(* Initial state: nothing published, process just started, nothing registered *)

NothingStored == [wfrId |-> 0, wfrStatus |-> ""]

Init ==
    /\ ctor = "start"
    /\ ctorRet = <<>>
    /\ subRet = [ch \in Channels |-> <<>>]
    /\ subscribed = [ch \in Channels |-> FALSE]
    /\ durable = [ch \in Channels |-> FALSE]
    /\ log = [ch \in Channels |-> <<>>]
    /\ lastSent = [ch \in Channels |-> 0]
    /\ acksPending = [ch \in Channels |-> {}]
    /\ acked = [ch \in Channels |-> {}]
    /\ dlv = [ch \in Channels |-> <<>>]
    /\ cdStored = NothingStored

----------------------------------------------------------------------------
(* The producer: the orchestration engine publishes on a channel *)

Publish(ch, data) ==
    /\ Len(log[workflowStatusUpdate]) + Len(log[cdWorkflowStatusUpdate]) < MaxMsgs
    /\ log' = [log EXCEPT ![ch] = Append(@, data)]
    /\ UNCHANGED <<ctor, ctorRet, subRet, subscribed, durable, lastSent,
                   acksPending, acked, dlv, cdStored>>

----------------------------------------------------------------------------
(* The constructor and the two registrations *)

\* stan.StartWithLastReceived(): a new durable starts at the last message
\* the channel holds (the position is the sequence number sent before it)
StartWithLastReceived(msgs) == IF Len(msgs) = 0 THEN 0 ELSE Len(msgs) - 1

\* variant: no durable name: every registration starts at its start option
RegisterAnew(ch) ==
    /\ subscribed' = [subscribed EXCEPT ![ch] = TRUE]
    /\ durable' = [durable EXCEPT ![ch] = TRUE]
    /\ lastSent' = [lastSent EXCEPT ![ch] = StartWithLastReceived(log[ch])]

\* QueueSubscribe succeeded on ch: the registration is live; the durable is
\* created at its start position, or found again at the position it had
Register(ch) ==
    /\ subscribed' = [subscribed EXCEPT ![ch] = TRUE]
    /\ durable' = [durable EXCEPT ![ch] = TRUE]
    /\ lastSent' = IF durable[ch] THEN lastSent
                   ELSE [lastSent EXCEPT ![ch] = StartWithLastReceived(log[ch])]

\* variant: the registration error is logged and nil is returned
SubscribeReturnSwallow(err) == <<NoErr>>

\* Subscribe / SubscribeCD: return the QueueSubscribe error, or nil
SubscribeReturn(err) == IF err # NoErr THEN <<err>> ELSE <<NoErr>>

\* the constructor after Subscribe() returned err
AfterSubscribe(err) ==
    IF err # NoErr
    THEN [ctor |-> "returned", ret |-> <<NilHandler>>]
    ELSE [ctor |-> "subscribedCI", ret |-> <<>>]

\* the constructor after SubscribeCD() returned err
AfterSubscribeCD(err) ==
    IF err # NoErr
    THEN [ctor |-> "returned", ret |-> <<NilHandler>>]
    ELSE [ctor |-> "returned", ret |-> <<Impl>>]

CtorSubscribe(err) ==
    /\ ctor = "start"
    /\ IF err = NoErr
       THEN Register(workflowStatusUpdate)
       ELSE UNCHANGED <<subscribed, durable, lastSent>>
    /\ subRet' = [subRet EXCEPT ![workflowStatusUpdate] = SubscribeReturn(err)]
    /\ LET a == AfterSubscribe(SubscribeReturn(err)[1]) IN
       ctor' = a.ctor /\ ctorRet' = a.ret
    /\ UNCHANGED <<log, acksPending, acked, dlv, cdStored>>

\* variant: a failed deploy registration takes the build registration back
CtorSubscribeCDRollback(err) ==
    /\ ctor = "subscribedCI"
    /\ IF err = NoErr
       THEN Register(cdWorkflowStatusUpdate)
       ELSE /\ subscribed' = [ch \in Channels |-> FALSE]
            /\ UNCHANGED <<durable, lastSent>>
    /\ subRet' = [subRet EXCEPT ![cdWorkflowStatusUpdate] = SubscribeReturn(err)]
    /\ LET a == AfterSubscribeCD(SubscribeReturn(err)[1]) IN
       ctor' = a.ctor /\ ctorRet' = a.ret
    /\ UNCHANGED <<log, acksPending, acked, dlv, cdStored>>

\* the constructor calls SubscribeCD(); its QueueSubscribe returns err
CtorSubscribeCD(err) ==
    /\ ctor = "subscribedCI"
    /\ IF err = NoErr
       THEN Register(cdWorkflowStatusUpdate)
       ELSE UNCHANGED <<subscribed, durable, lastSent>>
    /\ subRet' = [subRet EXCEPT ![cdWorkflowStatusUpdate] = SubscribeReturn(err)]
    /\ LET a == AfterSubscribeCD(SubscribeReturn(err)[1]) IN
       ctor' = a.ctor /\ ctorRet' = a.ret
    /\ UNCHANGED <<log, acksPending, acked, dlv, cdStored>>

----------------------------------------------------------------------------
(* The broker side of a subscription *)

NumDeliveries == Len(dlv[workflowStatusUpdate]) + Len(dlv[cdWorkflowStatusUpdate])

\* first delivery of the next message of the channel, held back while
\* MaxInflight messages are unacknowledged
Deliver(ch) ==
    /\ subscribed[ch]
    /\ Cardinality(acksPending[ch]) < MaxInflight
    /\ lastSent[ch] < Len(log[ch])
    /\ NumDeliveries < MaxDeliveries
    /\ LET seq == lastSent[ch] + 1 IN
       /\ lastSent' = [lastSent EXCEPT ![ch] = seq]
       /\ acksPending' = [acksPending EXCEPT ![ch] = @ \cup {seq}]
       /\ dlv' = [dlv EXCEPT ![ch] = Append(@, NewDelivery(ch, seq, FALSE))]
    /\ UNCHANGED <<ctor, ctorRet, subRet, subscribed, durable, log, acked,
                   cdStored>>

\* stan.AckWait(...): an unacknowledged message is sent again when the
\* ack-wait elapses, whether or not a callback is working on it
AckWaitExpire(ch, seq) ==
    /\ subscribed[ch]
    /\ seq \in acksPending[ch]
    /\ NumDeliveries < MaxDeliveries
    /\ dlv' = [dlv EXCEPT ![ch] = Append(@, NewDelivery(ch, seq, TRUE))]
    /\ UNCHANGED <<ctor, ctorRet, subRet, subscribed, durable, log, lastSent,
                   acksPending, acked, cdStored>>

----------------------------------------------------------------------------
(* The client side: the library runs a subscription's callback for one      *)
(* delivery at a time, in arrival order; the two subscriptions run apart.   *)

\* variant: one dispatcher serves both subscriptions
RunningAny(ch) ==
    \E c \in Channels : \E j \in 1..Len(dlv[c]) : dlv[c][j].pc \in RunningPcs

\* a callback of the subscription is running
Running(ch) == \E j \in 1..Len(dlv[ch]) : dlv[ch][j].pc \in RunningPcs

\* variant: any waiting delivery may be taken next
CanInvokeAnyOrder(ch, i) == dlv[ch][i].pc = "queued" /\ ~Running(ch)

\* the library hands the subscription's deliveries to the callback one at a
\* time, oldest first
CanInvoke(ch, i) ==
    /\ dlv[ch][i].pc = "queued"
    /\ ~Running(ch)
    /\ \A j \in 1..(i - 1) : dlv[ch][j].pc # "queued"

\* the broker receives the Ack of message seq of channel ch
BrokerAck(ch, seq) ==
    IF seq \in acksPending[ch]
    THEN /\ acksPending' = [acksPending EXCEPT ![ch] = @ \ {seq}]
         /\ acked' = [acked EXCEPT ![ch] = @ \cup {seq}]
    ELSE UNCHANGED <<acksPending, acked>>

\* one step of the callback of delivery i of channel ch took it to `new`;
\* an Ack it made reaches the broker
Step(ch, i, new) ==
    /\ dlv' = [dlv EXCEPT ![ch][i] = new]
    /\ IF new.acks > dlv[ch][i].acks
       THEN BrokerAck(ch, dlv[ch][i].seq)
       ELSE UNCHANGED <<acksPending, acked>>

\* the callback of delivery i starts and runs to `new`; the callbacks that
\* ran before it on the channel are over
Invoke(ch, i, new) ==
    /\ dlv' = [dlv EXCEPT ![ch] = [j \in 1..Len(dlv[ch]) |->
                 IF j = i THEN new
                 ELSE IF dlv[ch][j].pc = "returned"
                      THEN Archive(dlv[ch][j]) ELSE dlv[ch][j]]]
    /\ IF new.acks > dlv[ch][i].acks
       THEN BrokerAck(ch, dlv[ch][i].seq)
       ELSE UNCHANGED <<acksPending, acked>>

CiCallback(i) ==
    LET ch == workflowStatusUpdate IN
    /\ CanInvoke(ch, i)
    /\ Invoke(ch, i, CiReceive(dlv[ch][i], log[ch][dlv[ch][i].seq]))
    /\ UNCHANGED <<ctor, ctorRet, subRet, subscribed, durable, log, lastSent,
                   cdStored>>

CiUpdateReturn(i, err) ==
    LET ch == workflowStatusUpdate IN
    /\ dlv[ch][i].pc = "inUpdate"
    /\ Step(ch, i, CiUpdateDone(dlv[ch][i], err))
    /\ UNCHANGED <<ctor, ctorRet, subRet, subscribed, durable, log, lastSent,
                   cdStored>>

CdCallback(i) ==
    LET ch == cdWorkflowStatusUpdate IN
    /\ CanInvoke(ch, i)
    /\ Invoke(ch, i, CdReceive(dlv[ch][i], log[ch][dlv[ch][i].seq]))
    /\ UNCHANGED <<ctor, ctorRet, subRet, subscribed, durable, log, lastSent,
                   cdStored>>

\* what the deploy handler has stored after UpdateWorkflow returned res
HandlerStore(stored, res) ==
    IF res.err = NoErr
    THEN [wfrId |-> res.wfrId, wfrStatus |-> res.wfrStatus]
    ELSE stored

\* cdHandler.UpdateWorkflow returns: on success the handler has stored the
\* status of the run it resolved
CdUpdateReturn(i, res) ==
    LET ch == cdWorkflowStatusUpdate IN
    /\ dlv[ch][i].pc = "inUpdate"
    /\ Step(ch, i, CdUpdateDone(dlv[ch][i], res))
    /\ cdStored' = HandlerStore(cdStored, res)
    /\ UNCHANGED <<ctor, ctorRet, subRet, subscribed, durable, log, lastSent>>

\* FindWorkflowRunnerById returns: the record, or an error (no such record,
\* or the repository failed)
CdFindReturn(i, fails) ==
    LET ch == cdWorkflowStatusUpdate IN
    /\ dlv[ch][i].pc = "inLookup"
    /\ Step(ch, i, CdFindDone(dlv[ch][i],
                              IF fails THEN [err |-> TRUE, wfr |-> NoRunner]
                              ELSE FindWorkflowRunnerById(dlv[ch][i].wfrId)))
    /\ UNCHANGED <<ctor, ctorRet, subRet, subscribed, durable, log, lastSent,
                   cdStored>>

CdWriteReturn(i, evtErr) ==
    LET ch == cdWorkflowStatusUpdate IN
    /\ dlv[ch][i].pc = "inWrite"
    /\ Step(ch, i, CdWriteDone(dlv[ch][i], evtErr))
    /\ UNCHANGED <<ctor, ctorRet, subRet, subscribed, durable, log, lastSent,
                   cdStored>>

----------------------------------------------------------------------------
(* The process crashes and is started again: every callback ends before its *)
(* return, the registrations are gone and the constructor runs anew; the    *)
(* broker keeps the channels and the durables.                              *)

Lose(d) == IF d.pc = "returned" THEN d ELSE Archive([d EXCEPT !.pc = "lost"])

Crash ==
    /\ ctor' = "start"
    /\ ctorRet' = <<>>
    /\ subRet' = [ch \in Channels |-> <<>>]
    /\ subscribed' = [ch \in Channels |-> FALSE]
    /\ dlv' = [ch \in Channels |-> [i \in 1..Len(dlv[ch]) |-> Lose(dlv[ch][i])]]
    /\ UNCHANGED <<durable, log, lastSent, acksPending, acked, cdStored>>

----------------------------------------------------------------------------

Errs == {NoErr, RegistrationErr}

UpdateResults ==
    {[err |-> "err", wfrId |-> 0, wfrStatus |-> ""]}
    \cup [err : {NoErr}, wfrId : RunnerIds, wfrStatus : Statuses]

Next ==
    \/ \E ch \in Channels, data \in Payloads : Publish(ch, data)
    \/ \E err \in Errs : CtorSubscribe(err)
    \/ \E err \in Errs : CtorSubscribeCD(err)
    \/ \E ch \in Channels : Deliver(ch)
    \/ \E ch \in Channels : \E seq \in acksPending[ch] : AckWaitExpire(ch, seq)
    \/ \E i \in 1..Len(dlv[workflowStatusUpdate]) : CiCallback(i)
    \/ \E i \in 1..Len(dlv[workflowStatusUpdate]), err \in {NoErr, "err"} :
          CiUpdateReturn(i, err)
    \/ \E i \in 1..Len(dlv[cdWorkflowStatusUpdate]) : CdCallback(i)
    \/ \E i \in 1..Len(dlv[cdWorkflowStatusUpdate]), res \in UpdateResults :
          CdUpdateReturn(i, res)
    \/ \E i \in 1..Len(dlv[cdWorkflowStatusUpdate]), fails \in BOOLEAN :
          CdFindReturn(i, fails)
    \/ \E i \in 1..Len(dlv[cdWorkflowStatusUpdate]), evtErr \in {NoErr, "err"} :
          CdWriteReturn(i, evtErr)
    \/ Crash

Spec == Init /\ [][Next]_vars

\* a downstream call of the deploy callback returns
CdCallReturns ==
    \E i \in 1..Len(dlv[cdWorkflowStatusUpdate]) :
        \/ \E res \in UpdateResults : CdUpdateReturn(i, res)
        \/ \E fails \in BOOLEAN : CdFindReturn(i, fails)
        \/ \E evtErr \in {NoErr, "err"} : CdWriteReturn(i, evtErr)

\* the same program, where every call the deploy callback makes returns
\* and the goroutine of the callback runs on
LiveSpec == Init /\ [][Next]_vars /\ WF_vars(CdCallReturns)

----------------------------------------------------------------------------
(* Vocabulary of the properties *)

ci == workflowStatusUpdate
cd == cdWorkflowStatusUpdate

Dlvs(ch) == 1..Len(dlv[ch])

\* the deliveries whose callback has run or is running
Invoked(d) == d.pc \in RunningPcs \cup {"returned"}

\* the broker has the acknowledgment of the message of delivery d
AckedAtBroker(ch, d) == d.seq \in acked[ch] /\ d.seq \notin acksPending[ch]

\* number of deliveries of message seq in a channel's delivery sequence
Copies(ds, seq) == Cardinality({i \in 1..Len(ds) : ds[i].seq = seq})

----------------------------------------------------------------------------
\* C1: every delivery whose callback returned was acknowledged exactly once,
\* by the return itself: a delivery is never acknowledged before its callback
\* returns, and a returned one has made one Ack, which the broker has, for
\* every outcome (decode, handler, lookup and dispatch failure, success).
C1_AckOnceOnReturn ==
    \A ch \in Channels : \A i \in Dlvs(ch) :
        LET d == dlv[ch][i] IN
        /\ d.pc = "returned" => (d.acks = 1 /\ AckedAtBroker(ch, d))
        /\ d.pc # "returned" => d.acks = 0

C1_Witness ==
    /\ \E i \in Dlvs(cd) : dlv[cd][i].pc = "returned" /\ dlv[cd][i].acks = 1
                           /\ dlv[cd][i].outcome = "DispatchError"
    /\ \E i \in Dlvs(ci) : dlv[ci][i].pc = "returned" /\ dlv[ci][i].acks = 1
                           /\ dlv[ci][i].outcome = "HandlerError"

\* C2: a deploy delivery whose update returned a terminal status and whose
\* lookup resolved a record of type PRE or POST dispatches exactly one
\* notification: Success for Succeeded, Fail for Failed and for Error, built
\* from the record's pipeline, application and environment ids with
\* category CD, its stage the record's WorkflowType.
C2_OneNotification ==
    \A i \in Dlvs(cd) :
        LET d == dlv[cd][i] IN
        ( /\ ~d.archived
          /\ d.wfrStatus \in {NodeSucceeded, NodeFailed, NodeError}
          /\ d.wfr.WorkflowType \in {CD_WORKFLOW_TYPE_PRE, CD_WORKFLOW_TYPE_POST} )
        => /\ d.nWrite = 1
           /\ d.events =
                << [eventType |-> IF d.wfrStatus = NodeSucceeded THEN Success ELSE Fail,
                    pipelineId |-> d.wfr.PipelineId, appId |-> d.wfr.AppId,
                    envId |-> d.wfr.EnvironmentId, pipelineType |-> CD,
                    wfrId |-> d.wfr.Id, extra |-> 0,
                    stage |-> d.wfr.WorkflowType] >>

C2_Witness ==
    \E i \in Dlvs(cd) :
        /\ dlv[cd][i].pc = "returned" /\ dlv[cd][i].outcome = "Dispatched"
        /\ dlv[cd][i].wfrStatus = NodeError
        /\ dlv[cd][i].wfr.WorkflowType = CD_WORKFLOW_TYPE_POST
        /\ dlv[cd][i].nWrite = 1

\* C3: a deploy delivery writes an event only for a terminal status and a
\* record of type PRE or POST; a record of type DEPLOY and a non-terminal
\* status never lead to a write.
C3_OnlyTerminalPrePost ==
    \A i \in Dlvs(cd) :
        LET d == dlv[cd][i] IN
        ~d.archived =>
          /\ d.nWrite > 0 =>
               /\ d.wfrStatus \in {NodeSucceeded, NodeFailed, NodeError}
               /\ d.wfr.WorkflowType \in {CD_WORKFLOW_TYPE_PRE, CD_WORKFLOW_TYPE_POST}
          /\ d.wfr.WorkflowType = CD_WORKFLOW_TYPE_DEPLOY =>
               d.nWrite = 0 /\ d.events = <<>>
          /\ (d.nFind = 1 /\ d.wfrStatus \notin {NodeSucceeded, NodeFailed, NodeError}) =>
               d.nWrite = 0 /\ d.events = <<>> /\ d.pc # "inWrite"

C3_Witness ==
    \E i \in Dlvs(cd) :
        /\ dlv[cd][i].pc = "returned" /\ dlv[cd][i].nWrite = 0
        /\ dlv[cd][i].wfr.WorkflowType = CD_WORKFLOW_TYPE_DEPLOY
        /\ dlv[cd][i].wfrStatus = NodeFailed

\* a delivery of a malformed message makes no collaborator call and is
\* acknowledged by its return
C4_MalformedState ==
    \A ch \in Channels : \A i \in Dlvs(ch) :
        LET d == dlv[ch][i] IN
        ~WellFormed(log[ch][d.seq]) =>
          /\ d.nUpd = 0 /\ d.nFind = 0 /\ d.nWrite = 0
          /\ d.pc \notin RunningPcs
          /\ d.pc = "returned" => (d.acks = 1 /\ AckedAtBroker(ch, d))

\* no step adds a delivery of a malformed message that is acknowledged
C4_MalformedStep ==
    \A ch \in Channels : \A seq \in acked[ch] :
        ~WellFormed(log[ch][seq]) => Copies(dlv'[ch], seq) = Copies(dlv[ch], seq)

\* C4: for a malformed message, on either channel, no handler update, no
\* record lookup and no event write is made; the callback's return
\* acknowledges it, and once it is acknowledged the ack-wait sends no
\* further copy of it.
C4_MalformedAcked == []C4_MalformedState /\ [][C4_MalformedStep]_vars

C4_Witness ==
    /\ \E i \in Dlvs(ci) : dlv[ci][i].pc = "returned"
                           /\ ~WellFormed(log[ci][dlv[ci][i].seq])
    /\ \E i \in Dlvs(cd) : dlv[cd][i].pc = "returned"
                           /\ ~WellFormed(log[cd][dlv[cd][i].seq])

\* C5: a deploy delivery whose record lookup failed writes no event, lets no
\* value out of the callback, and is acknowledged by the return.
C5_LookupFailure ==
    \A i \in Dlvs(cd) :
        LET d == dlv[cd][i] IN
        (~d.archived /\ d.nFind = 1 /\ d.wfr = NoRunner /\ d.pc # "inLookup") =>
          /\ d.pc = "returned"
          /\ d.nWrite = 0 /\ d.events = <<>>
          /\ d.ret = <<>>
          /\ d.acks = 1 /\ AckedAtBroker(cd, d)

C5_Witness ==
    \E i \in Dlvs(cd) :
        /\ dlv[cd][i].pc = "returned" /\ dlv[cd][i].outcome = "LookupError"
        /\ dlv[cd][i].nFind = 1 /\ dlv[cd][i].wfrStatus = NodeSucceeded

\* number of handler updates made for message seq over the first n deliveries
RECURSIVE SumUpd(_, _, _)
SumUpd(ds, seq, n) ==
    IF n = 0 THEN 0
    ELSE SumUpd(ds, seq, n - 1) + (IF ds[n].seq = seq THEN ds[n].nUpd ELSE 0)

UpdCount(ch, seq) == SumUpd(dlv[ch], seq, Len(dlv[ch]))

\* C6, as claimed: over any run of deliveries, acknowledgments and ack-wait
\* expiries the build handler's update is invoked exactly once for a
\* well-formed message: never more than once, and once when it is acknowledged.
C6_ExactlyOncePerMessage ==
    \A seq \in 1..Len(log[ci]) :
        WellFormed(log[ci][seq]) =>
          /\ UpdCount(ci, seq) <= 1
          /\ seq \in acked[ci] => UpdCount(ci, seq) = 1

\* C6, amended: each delivery of a well-formed build message whose callback
\* runs invokes the build handler's update exactly once, with the decoded
\* status; a message delivered again is updated once per delivery.
C6_OncePerDelivery ==
    \A i \in Dlvs(ci) :
        LET d == dlv[ci][i] IN
        WellFormed(log[ci][d.seq]) =>
          /\ d.nUpd <= 1
          /\ Invoked(d) => d.nUpd = 1
          /\ d.pc = "queued" => d.nUpd = 0
          /\ (Invoked(d) /\ ~d.archived) =>
               d.updCalls = << [Phase |-> log[ci][d.seq].phase] >>

C6_Witness ==
    \E i \in Dlvs(ci) : \E j \in Dlvs(ci) :
        /\ i < j /\ dlv[ci][i].seq = dlv[ci][j].seq
        /\ dlv[ci][i].pc = "returned" /\ dlv[ci][i].nUpd = 1
        /\ dlv[ci][j].pc = "returned" /\ dlv[ci][j].nUpd = 1

\* C7: on each subscription at most one message is unacknowledged at the
\* broker and at most one delivery has its callback running, also when the
\* ack-wait elapsed while that callback was running.
C7_OneInFlight ==
    \A ch \in Channels :
        /\ Cardinality(acksPending[ch]) <= 1
        /\ Cardinality({i \in Dlvs(ch) : dlv[ch][i].pc \in RunningPcs}) <= 1

C7_Witness ==
    \E ch \in Channels : \E i \in Dlvs(ch) : \E j \in Dlvs(ch) :
        /\ dlv[ch][i].pc \in RunningPcs
        /\ dlv[ch][j].pc = "queued" /\ dlv[ch][j].redelivered
        /\ dlv[ch][j].seq = dlv[ch][i].seq

RegistrationFailed == \E ch \in Channels : subRet[ch] = <<RegistrationErr>>

\* C8, as claimed: when a registration failed, the registration error is
\* among the values the constructor returns to its caller.
C8_ErrorToCaller ==
    (ctor = "returned" /\ RegistrationFailed) =>
        \E k \in 1..Len(ctorRet) : ctorRet[k] = RegistrationErr

\* C8, amended: Subscribe and SubscribeCD return the registration error to
\* the constructor, which then returns nil and no error value; it returns
\* the handler only when both registrations succeeded.
C8_NilOnFailure ==
    /\ \A ch \in Channels :
          /\ subRet[ch] = <<RegistrationErr>> => ~subscribed[ch]
          /\ subRet[ch] = <<NoErr>> => subscribed[ch]
    /\ (ctor = "returned" /\ RegistrationFailed) => ctorRet = <<NilHandler>>
    /\ ctorRet = <<Impl>> =>
          \A ch \in Channels : subscribed[ch] /\ subRet[ch] = <<NoErr>>
    /\ (ctor = "returned" /\ ~RegistrationFailed) => ctorRet = <<Impl>>

C8_Witness ==
    /\ ctor = "returned"
    /\ subRet[ci] = <<NoErr>> /\ subRet[cd] = <<RegistrationErr>>
    /\ ctorRet = <<NilHandler>>

\* C9, as claimed: a message whose callback returned is not delivered to the
\* callback again.
C9_NeverDeliveredAgain ==
    \A ch \in Channels : \A i \in Dlvs(ch) : \A j \in Dlvs(ch) :
        (i < j /\ dlv[ch][i].seq = dlv[ch][j].seq /\ dlv[ch][i].pc = "returned")
        => ~Invoked(dlv[ch][j])

\* a message whose callback returned is not among the unacknowledged ones
C9_ReturnedState ==
    \A ch \in Channels : \A i \in Dlvs(ch) :
        dlv[ch][i].pc = "returned" => dlv[ch][i].seq \notin acksPending[ch]

\* no step adds a delivery of a message whose callback returned
C9_ReturnedStep ==
    \A ch \in Channels : \A i \in Dlvs(ch) :
        dlv[ch][i].pc = "returned" =>
            Copies(dlv'[ch], dlv[ch][i].seq) = Copies(dlv[ch], dlv[ch][i].seq)

\* C9, amended: once a callback of a message has returned, with success or
\* with a failure, the message is acknowledged and the broker sends no new
\* copy of it, so a failed update is dropped; the ack-wait resends only
\* unacknowledged messages, and a copy sent while the callback was still
\* running is processed after that callback returned.
C9_NoResendAfterReturn == []C9_ReturnedState /\ [][C9_ReturnedStep]_vars

C9_Witness ==
    \E i \in Dlvs(cd) : \E j \in Dlvs(cd) :
        /\ dlv[cd][i].pc = "returned" /\ dlv[cd][i].outcome = "HandlerError"
        /\ AckedAtBroker(cd, dlv[cd][i])
        /\ Copies(dlv[cd], dlv[cd][i].seq) = 1
        /\ dlv[cd][j].seq = dlv[cd][i].seq + 1

\* C10: a deploy delivery whose event write failed has called the
\* notification client once, lets no value out of the callback, leaves what
\* the deploy handler stored in place, and is acknowledged; no delivery
\* calls the notification client more than once.
C10_WriteFailure ==
    \A i \in Dlvs(cd) :
        LET d == dlv[cd][i] IN
        /\ d.nWrite <= 1
        /\ (~d.archived /\ d.outcome = "DispatchError") =>
             /\ d.pc = "returned"
             /\ d.nWrite = 1 /\ d.nUpd = 1
             /\ d.ret = <<>>
             /\ cdStored = [wfrId |-> d.wfrId, wfrStatus |-> d.wfrStatus]
             /\ d.acks = 1 /\ AckedAtBroker(cd, d)

C10_Witness ==
    \E i \in Dlvs(cd) :
        /\ dlv[cd][i].outcome = "DispatchError" /\ dlv[cd][i].nWrite = 1
        /\ dlv[cd][i].wfrStatus = NodeSucceeded
        /\ cdStored = [wfrId |-> dlv[cd][i].wfrId, wfrStatus |-> NodeSucceeded]

\* C11: a delivery on the build channel never calls the record lookup, never
\* builds an event and never calls the notification client, whatever the
\* payload and whatever the build handler returned; when the build handler
\* returned an error the callback is over after that one update call, with
\* no second call and no other call.
C11_BuildPathFrame ==
    \A i \in Dlvs(ci) :
        LET d == dlv[ci][i] IN
        /\ d.nFind = 0 /\ d.findCalls = <<>>
        /\ d.nWrite = 0 /\ d.events = <<>>
        /\ d.pc \notin {"inLookup", "inWrite"}
        /\ d.nUpd <= 1
        /\ d.outcome = "HandlerError" =>
             d.pc = "returned" /\ d.nUpd = 1 /\ d.acks = 1

C11_Witness ==
    /\ \E i \in Dlvs(ci) : dlv[ci][i].outcome = "HandlerError"
                           /\ dlv[ci][i].pc = "returned" /\ dlv[ci][i].nUpd = 1
                           /\ dlv[ci][i].updCalls = << [Phase |-> NodeSucceeded] >>

\* where a deploy delivery stands: each position is reached after the call
\* before it was made once, and a delivery that ended on a failure made no
\* call after the failed step
C12_OrderState ==
    \A i \in Dlvs(cd) :
        LET d == dlv[cd][i] IN
        /\ d.nUpd <= 1 /\ d.nFind <= 1 /\ d.nWrite <= 1
        /\ d.nUpd > 0 => WellFormed(log[cd][d.seq])
        /\ d.pc = "queued" => (d.nUpd = 0 /\ d.nFind = 0 /\ d.nWrite = 0)
        /\ d.pc = "inUpdate" => (d.nUpd = 1 /\ d.nFind = 0 /\ d.nWrite = 0)
        /\ d.pc = "inLookup" => (d.nUpd = 1 /\ d.nFind = 1 /\ d.nWrite = 0)
        /\ d.pc = "inWrite" => (d.nUpd = 1 /\ d.nFind = 1 /\ d.nWrite = 1)
        /\ ~d.archived =>
             /\ d.nWrite > 0 => d.nFind = 1
             /\ d.nFind > 0 => d.nUpd = 1
             /\ d.outcome = "DecodeError" =>
                  (d.nUpd = 0 /\ d.nFind = 0 /\ d.nWrite = 0)
             /\ d.outcome = "HandlerError" =>
                  (d.nUpd = 1 /\ d.nFind = 0 /\ d.nWrite = 0)
             /\ d.outcome = "LookupError" =>
                  (d.nUpd = 1 /\ d.nFind = 1 /\ d.nWrite = 0)
             /\ d.nWrite = 1 =>
                  d.events = << BuildEvent(EventTypeOf(d.wfrStatus), d.wfr,
                                           d.wfr.WorkflowType) >>

\* a deploy delivery moves forward only: update, then lookup with the id a
\* successful update returned, then the write of an event made from the
\* record the lookup found; every position can end the callback
C12_OrderStep ==
    \A i \in Dlvs(cd) :
        LET d == dlv[cd][i]
            e == dlv'[cd][i] IN
        /\ d.pc = "queued" => e.pc \in {"queued", "inUpdate", "returned", "lost"}
        /\ d.pc = "inUpdate" => e.pc \in {"inUpdate", "inLookup", "returned", "lost"}
        /\ d.pc = "inLookup" => e.pc \in {"inLookup", "inWrite", "returned", "lost"}
        /\ d.pc = "inWrite" => e.pc \in {"inWrite", "returned", "lost"}
        /\ d.pc \in {"returned", "lost"} => e.pc = d.pc
        /\ (d.pc = "inUpdate" /\ e.pc = "inLookup") =>
             /\ \E res \in UpdateResults :
                   /\ res.err = NoErr
                   /\ res.wfrId = e.wfrId /\ res.wfrStatus = e.wfrStatus
             /\ e.findCalls = <<e.wfrId>>
        /\ (d.pc = "inLookup" /\ e.pc = "inWrite") =>
             /\ e.wfr \in Runners /\ e.wfr.Id = d.wfrId
             /\ Terminal(d.wfrStatus)
        /\ (d.pc = "queued" /\ e.pc = "returned") => e.outcome = "DecodeError"
        /\ (d.pc = "inUpdate" /\ e.pc = "returned") => e.outcome = "HandlerError"

\* C12: a deploy delivery makes its calls in the order update, lookup, event
\* write, each at most once and each only after the one before it succeeded:
\* no update for a payload that does not decode, no lookup and no write
\* after a failed update, no write after a failed lookup; the event written
\* is the one built from the status the update returned and the record the
\* lookup found.
C12_FixedOrder == []C12_OrderState /\ [][C12_OrderStep]_vars

C12_Witness ==
    \E i \in Dlvs(cd) :
        /\ dlv[cd][i].pc = "returned" /\ dlv[cd][i].outcome = "HandlerError"
        /\ dlv[cd][i].nUpd = 1 /\ dlv[cd][i].nFind = 0 /\ dlv[cd][i].nWrite = 0

Other(ch) == IF ch = ci THEN cd ELSE ci

\* a callback of the channel is inside a downstream call
Blocked(ch) == \E i \in Dlvs(ch) : dlv[ch][i].pc \in RunningPcs

\* while a callback of one subscription is inside a downstream call, the
\* other subscription can be sent its next message, can start the callback
\* of a waiting delivery, and a callback of it that is in the handler can
\* return and acknowledge
C13_OtherProceeds ==
    \A ch \in Channels :
        Blocked(ch) =>
          LET o == Other(ch) IN
          /\ ( /\ subscribed[o] /\ acksPending[o] = {}
               /\ lastSent[o] < Len(log[o]) /\ NumDeliveries < MaxDeliveries )
             => ENABLED Deliver(o)
          /\ ( ~Blocked(o) /\ \E i \in Dlvs(o) : dlv[o][i].pc = "queued" )
             => IF o = ci THEN ENABLED (\E i \in Dlvs(ci) : CiCallback(i))
                ELSE ENABLED (\E i \in Dlvs(cd) : CdCallback(i))
          /\ \A i \in Dlvs(ci) :
                (o = ci /\ dlv[ci][i].pc = "inUpdate")
                => ENABLED (CiUpdateReturn(i, NoErr)
                            /\ dlv'[ci][i].acks = 1 /\ dlv[ci][i].seq \in acked'[ci])
          /\ \A i \in Dlvs(cd) :
                (o = cd /\ dlv[cd][i].pc = "inUpdate")
                => ENABLED (CdUpdateReturn(i, [err |-> "err", wfrId |-> 0,
                                               wfrStatus |-> ""])
                            /\ dlv'[cd][i].acks = 1 /\ dlv[cd][i].seq \in acked'[cd])

\* a step of one subscription leaves the other subscription's deliveries and
\* broker state as they were, and while a callback stays inside a downstream
\* call no other callback of its own subscription starts, and no new message
\* is sent on it as long as the callback's message is unacknowledged
C13_OwnOnlyStep ==
    \A ch \in Channels :
        /\ ( subscribed' = subscribed /\ dlv'[ch] # dlv[ch] /\ ctor' = ctor )
           => LET o == Other(ch) IN
              /\ dlv'[o] = dlv[o] /\ acksPending'[o] = acksPending[o]
              /\ acked'[o] = acked[o] /\ lastSent'[o] = lastSent[o]
        /\ \A i \in Dlvs(ch) :
              (dlv[ch][i].pc \in RunningPcs /\ dlv'[ch][i].pc \in RunningPcs) =>
                /\ dlv[ch][i].seq \in acksPending[ch] => lastSent'[ch] = lastSent[ch]
                /\ \A j \in Dlvs(ch) :
                      dlv[ch][j].pc = "queued" => dlv'[ch][j].pc = "queued"

\* C13: the two subscriptions proceed independently: a callback inside a
\* downstream call holds back the later deliveries of its own subscription
\* only; the other subscription is still sent messages, runs its callbacks
\* and acknowledges.
C13_Independent == []C13_OtherProceeds /\ [][C13_OwnOnlyStep]_vars

C13_Witness ==
    /\ \E i \in Dlvs(cd) : dlv[cd][i].pc \in {"inLookup", "inWrite"}
    /\ \E i \in Dlvs(ci) : dlv[ci][i].pc = "returned" /\ dlv[ci][i].nUpd = 1
                           /\ AckedAtBroker(ci, dlv[ci][i])

\* a callback that is over: it returned, or the process ended under it
Over(d) == d.pc \in {"returned", "lost"}

\* C14: on each channel the deliveries are processed in the order the broker
\* made them: when the callback of a delivery has started, the callback of
\* every earlier delivery of the channel is over; the broker's deliveries
\* follow the channel's sequence, and a later message is sent only when the
\* earlier one is acknowledged.
C14_DeliveryOrder ==
    \A ch \in Channels : \A i \in Dlvs(ch) : \A j \in Dlvs(ch) :
        i < j =>
          /\ (Invoked(dlv[ch][j]) \/ dlv[ch][j].nUpd > 0) => Over(dlv[ch][i])
          /\ dlv[ch][i].seq <= dlv[ch][j].seq
          /\ dlv[ch][i].seq < dlv[ch][j].seq => dlv[ch][i].seq \in acked[ch]

C14_Witness ==
    \E ch \in Channels : \E i \in Dlvs(ch) : \E j \in Dlvs(ch) :
        /\ i < j /\ dlv[ch][i].seq < dlv[ch][j].seq
        /\ dlv[ch][i].pc = "returned" /\ dlv[ch][i].nUpd = 1
        /\ dlv[ch][j].pc = "inUpdate"

Aborts == {"DecodeError", "HandlerError", "LookupError"}
EndStates == {"Dropped", "GatedOut", "Dispatched", "DispatchError"} \cup Aborts

\* how far a delivery's callback has come
Rank(pc) ==
    CASE pc = "queued" -> 0
      [] pc = "inUpdate" -> 1
      [] pc = "inLookup" -> 2
      [] pc = "inWrite" -> 3
      [] OTHER -> 4

\* a returned deploy delivery is in one end state, the one its status and
\* record call for, and a delivery that has not returned is in none
C15_EndState ==
    \A i \in Dlvs(cd) :
        LET d == dlv[cd][i] IN
        /\ d.pc # "returned" => d.outcome = ""
        /\ (d.pc = "returned" /\ ~d.archived) =>
             /\ d.outcome \in EndStates
             /\ d.outcome = "Dropped" <=>
                  (d.nFind = 1 /\ d.wfr \in Runners /\ ~Terminal(d.wfrStatus))
             /\ d.outcome = "GatedOut" <=>
                  ( /\ d.nFind = 1 /\ d.wfr \in Runners /\ Terminal(d.wfrStatus)
                    /\ d.wfr.WorkflowType = CD_WORKFLOW_TYPE_DEPLOY )
             /\ d.outcome \in {"Dispatched", "DispatchError"} <=>
                  ( /\ d.nWrite = 1 /\ Terminal(d.wfrStatus)
                    /\ d.wfr.WorkflowType \in {CD_WORKFLOW_TYPE_PRE,
                                                CD_WORKFLOW_TYPE_POST} )
             /\ d.outcome \in Aborts <=> d.wfr = NoRunner

\* every step of a deploy callback takes it further: no position is
\* repeated or gone back to
C15_ForwardStep ==
    \A i \in Dlvs(cd) :
        dlv'[cd][i] # dlv[cd][i] =>
          \/ Rank(dlv'[cd][i].pc) > Rank(dlv[cd][i].pc)
          \/ dlv[cd][i].pc = "returned" /\ dlv'[cd][i] = Archive(dlv[cd][i])

\* a deploy callback that is inside a call comes to its end (one runs at a
\* time, so the callback inside a call is over when none is inside one)
C15_Terminates == Blocked(cd) ~> ~Blocked(cd)

\* C15: when every call it makes returns, the computation of a deploy
\* delivery ends: the callback returns in exactly one of Dropped, Gated-Out,
\* Dispatched (the write made, whether or not it succeeded) or an abort
\* after a failed decode, update or lookup, unless the process ends under
\* it; on the way it only moves forward through update, lookup and write.
C15_DeployTerminates ==
    []C15_EndState /\ [][C15_ForwardStep]_vars /\ C15_Terminates

C15_Witness ==
    \E i \in Dlvs(cd) :
        /\ dlv[cd][i].pc = "returned" /\ dlv[cd][i].outcome = "GatedOut"
        /\ dlv[cd][i].nUpd = 1 /\ dlv[cd][i].nFind = 1 /\ dlv[cd][i].nWrite = 0

\* the durable's position covers every message sent, acknowledged or not
C16_Position ==
    \A ch \in Channels :
        /\ \A seq \in acked[ch] \cup acksPending[ch] : seq <= lastSent[ch]
        /\ acked[ch] \cap acksPending[ch] = {}
        /\ \A i \in Dlvs(ch) : dlv[ch][i].seq <= lastSent[ch]

\* no step sends an acknowledged message again or moves the position back;
\* a registration that finds its durable takes over its position and its
\* unacknowledged messages, and a first delivery is of the message after
\* the position
C16_ResumeStep ==
    \A ch \in Channels :
        /\ lastSent'[ch] >= lastSent[ch]
        /\ acked[ch] \subseteq acked'[ch]
        /\ \A seq \in acked[ch] : Copies(dlv'[ch], seq) = Copies(dlv[ch], seq)
        /\ (durable[ch] /\ ~subscribed[ch] /\ subscribed'[ch]) =>
             /\ lastSent'[ch] = lastSent[ch]
             /\ acksPending'[ch] = acksPending[ch]
             /\ dlv'[ch] = dlv[ch]
        /\ Len(dlv'[ch]) > Len(dlv[ch]) =>
             LET d == dlv'[ch][Len(dlv'[ch])] IN
             IF d.redelivered THEN d.seq \in acksPending[ch]
             ELSE d.seq = lastSent[ch] + 1 /\ \A seq \in acked[ch] : seq < d.seq

\* C16: a durable keeps its position over a restart of the consumer: the
\* registration after the restart goes on from the position and the
\* unacknowledged messages the durable had; an acknowledged message is
\* never sent again and the position never goes back to the start.
C16_DurableResume == []C16_Position /\ [][C16_ResumeStep]_vars

C16_Witness ==
    \E ch \in Channels : \E i \in Dlvs(ch) : \E j \in Dlvs(ch) :
        /\ i < j /\ Len(log[ch]) = 2
        /\ dlv[ch][i].pc = "lost" /\ dlv[ch][i].seq = 1
        /\ dlv[ch][j].pc = "returned" /\ dlv[ch][j].seq = 1
        /\ AckedAtBroker(ch, dlv[ch][j]) /\ lastSent[ch] = 1

\* the deploy registration failed after the build registration succeeded
DeployRegistrationFailed ==
    ctor = "returned" /\ subRet[cd] = <<RegistrationErr>>

\* C17: the deploy registration is attempted only after the build
\* registration succeeded; when it fails the constructor returns nil and the
\* build registration is left in place: the build subscription is still
\* sent messages, still runs its callback and still acknowledges.
C17_NoRollback ==
    /\ subRet[cd] # <<>> => subRet[ci] = <<NoErr>>
    /\ subscribed[cd] => subscribed[ci]
    /\ ctor = "start" => (subRet[ci] = <<>> /\ ~subscribed[ci] /\ ~subscribed[cd])
    /\ subRet[ci] = <<RegistrationErr>> =>
          (ctor = "returned" /\ subRet[cd] = <<>> /\ ~subscribed[cd])
    /\ DeployRegistrationFailed =>
          /\ ctorRet = <<NilHandler>>
          /\ subscribed[ci] /\ ~subscribed[cd]
          /\ ( /\ acksPending[ci] = {} /\ lastSent[ci] < Len(log[ci])
               /\ NumDeliveries < MaxDeliveries )
             => ENABLED Deliver(ci)
          /\ ( ~Blocked(ci) /\ \E i \in Dlvs(ci) : dlv[ci][i].pc = "queued" )
             => ENABLED (\E i \in Dlvs(ci) : CiCallback(i))
          /\ \A i \in Dlvs(ci) :
                dlv[ci][i].pc = "inUpdate"
                => ENABLED (CiUpdateReturn(i, NoErr)
                            /\ dlv'[ci][i].acks = 1 /\ dlv[ci][i].seq \in acked'[ci])

C17_Witness ==
    /\ DeployRegistrationFailed /\ ctorRet = <<NilHandler>>
    /\ \E i \in Dlvs(ci) : \E j \in Dlvs(ci) :
          /\ dlv[ci][i].pc = "returned" /\ AckedAtBroker(ci, dlv[ci][i])
          /\ dlv[ci][j].pc = "inUpdate" /\ dlv[ci][j].seq > dlv[ci][i].seq

\* C18: every event a delivery has handed to the notification client has
\* the event type Success or Fail, never the unset default; an event is
\* handed over only by a deploy delivery.
C18_EventTypeSet ==
    \A ch \in Channels : \A i \in Dlvs(ch) :
        LET d == dlv[ch][i] IN
        /\ \A k \in 1..Len(d.events) :
              /\ d.events[k].eventType \in {Success, Fail}
              /\ d.events[k].eventType # EventTypeUnset
              /\ ch = cd
        /\ (~d.archived /\ d.nWrite > 0) => Len(d.events) = d.nWrite

C18_Witness ==
    \E i \in Dlvs(cd) :
        /\ dlv[cd][i].pc = "inWrite" /\ dlv[cd][i].wfrStatus = NodeError
        /\ Len(dlv[cd][i].events) = 1 /\ dlv[cd][i].events[1].eventType = Fail

\* the build callback run on a first delivery of message seq, as far as
\* delivery d has come, with the handler result d got
CiReplay(d) ==
    LET d1 == CiReceive(NewDelivery(ci, d.seq, FALSE), log[ci][d.seq]) IN
    IF d1.pc = "returned" \/ d.pc = "inUpdate" THEN d1
    ELSE CiUpdateDone(d1, IF d.outcome = "HandlerError" THEN "err" ELSE NoErr)

\* the deploy callback run on a first delivery of message seq, as far as
\* delivery d has come, with the results d got from its calls
CdReplay(d) ==
    LET d1 == CdReceive(NewDelivery(cd, d.seq, FALSE), log[cd][d.seq])
        d2 == CdUpdateDone(d1, IF d.outcome = "HandlerError"
                               THEN [err |-> "err", wfrId |-> 0, wfrStatus |-> ""]
                               ELSE [err |-> NoErr, wfrId |-> d.wfrId,
                                     wfrStatus |-> d.wfrStatus])
        d3 == CdFindDone(d2, IF d.outcome = "LookupError"
                             THEN [err |-> TRUE, wfr |-> NoRunner]
                             ELSE FindWorkflowRunnerById(d.wfrId))
        d4 == CdWriteDone(d3, IF d.outcome = "DispatchError" THEN "err" ELSE NoErr)
    IN
    IF d1.pc = "returned" \/ d.pc = "inUpdate" THEN d1
    ELSE IF d2.pc = "returned" \/ d.pc = "inLookup" THEN d2
    ELSE IF d3.pc = "returned" \/ d.pc = "inWrite" THEN d3
    ELSE d4

\* C19: what a callback does in a delivery follows from the payload and
\* from what its calls returned in that delivery, and from nothing else: a
\* delivery, sent again or not, whatever was delivered before it and
\* whatever the deploy handler has stored, stands exactly where a first
\* delivery of the same message with the same results stands, with the
\* same calls and arguments; nothing skips a message that is sent again.
C19_Stateless ==
    /\ \A i \in Dlvs(ci) :
          LET d == dlv[ci][i] IN
          (Invoked(d) /\ ~d.archived) =>
              d = [CiReplay(d) EXCEPT !.redelivered = d.redelivered]
    /\ \A i \in Dlvs(cd) :
          LET d == dlv[cd][i] IN
          (Invoked(d) /\ ~d.archived) =>
              d = [CdReplay(d) EXCEPT !.redelivered = d.redelivered]

C19_Witness ==
    \E i \in Dlvs(cd) : \E j \in Dlvs(cd) :
        /\ i < j /\ dlv[cd][i].seq = dlv[cd][j].seq
        /\ dlv[cd][i].pc = "lost" /\ dlv[cd][i].nUpd = 1 /\ dlv[cd][i].nWrite = 1
        /\ dlv[cd][j].redelivered /\ dlv[cd][j].pc = "inWrite"
        /\ dlv[cd][j].nUpd = 1 /\ dlv[cd][j].nWrite = 1

====
